---- MODULE Spec2Model ----
(***************************************************************************)
(* LivecastServer (src/src/index.js): the capture guard `serve`, the       *)
(* capture procedure `_makeSnapshot`, the timeout race                     *)
(* `addTimeoutToPromise` (src/src/utils/utils.js), the rotating screenshot *)
(* files, the socket connection handlers, the prompt bridge and the        *)
(* lifecycle calls start and stop.                                         *)
(*                                                                         *)
(* JavaScript runs one callback at a time; an async function is cut at its *)
(* awaits.  Each action below is one such uninterrupted piece: a call of   *)
(* serve up to its await, the completion of an awaited I/O operation with  *)
(* everything that runs after it in the same microtask drain, a timer      *)
(* callback, a socket event.                                               *)
(***************************************************************************)
EXTENDS Integers, Sequences, FiniteSets, TLC

\* ---------------------------------------------------------------- bounds
\* serve calls made by the external driver
MaxCalls == 2
\* clock ticks (one tick is one second)
MaxTicks == 7
\* sockets connected at the same time where only their number being zero
\* or not matters (capture guard, prompt bridge)
MaxClients == 1
\* sockets connected at the same time where it matters which of them gets an
\* event (the 'getLastSnapshot' handler)
MaxObservers == 2
\* 'getLastSnapshot' events answered with a snapshot
MaxRequests == 1
\* largest value of the option maxScreenshotFiles tried
MaxRetain == 2
\* prompt calls made by the automation
MaxPrompts == 2
\* 'promptAnswer' events received
MaxAnswers == 3
\* calls of start and stop made by the host
MaxLifecycle == 3

\* ------------------------------------------------------- program constants
\* constructor: `snapshotTimeoutSecs = 3`
snapshotTimeoutSecs == 3
\* constructor: `maxSnapshotFrequencySecs = 2`
maxSnapshotFrequencySecs == 2
\* constructor: `... * 1000`
MillisPerSec == 1000

snapshotTimeoutMillis == snapshotTimeoutSecs * MillisPerSec
maxSnapshotFrequencyMillis == maxSnapshotFrequencySecs * MillisPerSec

\* null / undefined, and a present value, of an optional field
Null == {}
Some(x) == {x}
The(opt) == CHOOSE x \in opt : TRUE

Calls == 1..MaxCalls
Prompts == 1..MaxPrompts

VARIABLES
    useScreenshots,       \* option: this.useScreenshots
    maxScreenshotFiles,   \* option: this.maxScreenshotFiles
    now,                  \* Date.now(), in milliseconds
    clientCount,          \* this.clientCount
    lastSnapshot,         \* this.lastSnapshot: Null or Some(snapshot)
    lastScreenshotIndex,  \* this.lastScreenshotIndex
    servingSnapshot,      \* this.servingSnapshot
    nCalls,               \* serve calls made so far; call p is the p-th
    call,                 \* per serve call: where it is and how it ended
    cap,                  \* per serve call: its _makeSnapshot invocation
    timer,                \* per serve call: the armed timer's due time, or Null
    files,                \* screenshot files on disk, by index
    unlinks,              \* indexes whose unlink was started and has not finished
    unlinkFailed,         \* some unlink ended in an error that left the file
    sent,                 \* socketio.emit calls, in order
    produced,             \* the Snapshots assigned to lastSnapshot, in order
    nPrompts,             \* prompt calls made so far; prompt r is the r-th
    prompts,              \* per prompt call: where it is, the payload that resolved
                          \* it, the response it got from it, the result it gave
    resolveMessagePromise, \* this.resolveMessagePromise: Null, or Some(r), the
                          \* resolve function of the promise of prompt call r
    nAnswers,             \* 'promptAnswer' events received so far
    handled,              \* the calls of prompt handlers, in order
    socketThrew,          \* a socket event handler threw
    _isRunning,           \* this._isRunning
    listening,            \* this.httpServer is bound to its port
    lifecycle,            \* the call of start or stop under way (pc), and how
                          \* the last one ended if none was made since (ended)
    nLifecycle            \* calls of start and stop made so far

vars == <<useScreenshots, maxScreenshotFiles, now, clientCount, lastSnapshot,
          lastScreenshotIndex, servingSnapshot, nCalls, call, cap, timer,
          files, unlinks, unlinkFailed, sent, produced, nPrompts, prompts,
          resolveMessagePromise, nAnswers, handled, socketThrew,
          _isRunning, listening, lifecycle, nLifecycle>>

\* the state of the prompt bridge
bridge == <<nPrompts, prompts, resolveMessagePromise, nAnswers, handled, socketThrew>>

\* the state of the HTTP server and of its lifecycle calls
server == <<_isRunning, listening, lifecycle, nLifecycle>>

options == <<useScreenshots, maxScreenshotFiles>>

\* ------------------------------------------------------------------ Init
\* constructor, lines 74-107, but for the state of the HTTP server
Constructed ==
    /\ useScreenshots \in BOOLEAN
    /\ maxScreenshotFiles \in 1..MaxRetain
    /\ now = 0
    /\ clientCount = 0
    /\ lastSnapshot = Null
    /\ lastScreenshotIndex = 0
    /\ servingSnapshot = FALSE
    /\ nCalls = 0
    /\ call = [p \in Calls |-> [pc |-> "notcalled", outcome |-> "none",
                                flagAtReturn |-> FALSE]]
    /\ cap = [p \in Calls |-> [st |-> "none", idx |-> Null]]
    /\ timer = [p \in Calls |-> Null]
    /\ files = {}
    /\ unlinks = {}
    /\ unlinkFailed = FALSE
    /\ sent = <<>>
    /\ produced = <<>>
    /\ nPrompts = 0
    /\ prompts = [r \in Prompts |-> [pc |-> "notcalled", response |-> Null,
                                     answer |-> Null, result |-> Null]]
    /\ resolveMessagePromise = Null
    /\ nAnswers = 0
    /\ handled = <<>>
    /\ socketThrew = FALSE

\* constructor, lines 74-107: the HTTP server is created, not started
Init ==
    /\ Constructed
    /\ _isRunning = FALSE
    /\ listening = FALSE
    /\ lifecycle = [pc |-> "idle", ended |-> "none"]
    /\ nLifecycle = 0

\* the state after the constructor and one call of start that bound the port
Started ==
    /\ Constructed
    /\ _isRunning = TRUE
    /\ listening = TRUE
    /\ lifecycle = [pc |-> "idle", ended |-> "started"]
    /\ nLifecycle = 1

\* --------------------------------------------------------------- Snapshot
\* new Snapshot({ pageUrl, htmlContent, screenshotIndex }): createdAt is the
\* time of construction; id names the capture that built it.
NewSnapshot(p, screenshotIndex) ==
    [id |-> p, screenshotIndex |-> screenshotIndex, createdAt |-> now]

\* snapshot.age()
SnapshotAge(s) == now - s.createdAt

\* ------------------------------------------------------------------ serve
\* hasClients() without the exception made before the first Snapshot
hasClientsNoBootstrap == clientCount > 0

\* hasClients()
hasClients == IF lastSnapshot # Null THEN clientCount > 0 ELSE TRUE

\* the check of line 183 with its comparison turned round
ThrottledReversed ==
    /\ lastSnapshot # Null
    /\ SnapshotAge(The(lastSnapshot)) > maxSnapshotFrequencyMillis

\* serve, line 183
Throttled ==
    /\ lastSnapshot # Null
    /\ SnapshotAge(The(lastSnapshot)) < maxSnapshotFrequencyMillis

\* serve without its `finally` block: the flag stays as it is
ServeFinallyKeep == servingSnapshot

\* serve, the `finally` block: the value servingSnapshot is given
ServeFinally == FALSE

\* setTimeout(callback, timeoutMillis): the time from which the timer may fire
SetTimeout(timeoutMillis) == Some(now + timeoutMillis)

\* an early return of serve that clears the flag on its way out
ServeSkipClearing(p, why) ==
    /\ call' = [call EXCEPT ![p] = [pc |-> "returned", outcome |-> why,
                                    flagAtReturn |-> FALSE]]
    /\ servingSnapshot' = FALSE
    /\ UNCHANGED <<cap, timer>>

\* serve, the early returns of lines 172-186
ServeSkip(p, why) ==
    /\ call' = [call EXCEPT ![p] = [pc |-> "returned", outcome |-> why,
                                    flagAtReturn |-> servingSnapshot]]
    /\ UNCHANGED <<servingSnapshot, cap, timer>>

\* serve, lines 188-194: the flag is set, _makeSnapshot is started (it runs
\* up to its first await) and the timer of addTimeoutToPromise is armed
ServeAdmit(p) ==
    /\ servingSnapshot' = TRUE
    /\ cap' = [cap EXCEPT ![p] = [st |-> "gathering", idx |-> Null]]
    /\ timer' = [timer EXCEPT ![p] = SetTimeout(snapshotTimeoutMillis)]
    /\ call' = [call EXCEPT ![p] = [pc |-> "awaiting", outcome |-> "none",
                                    flagAtReturn |-> FALSE]]

\* serve(page), called by the external driver.  The second conjunct is a bound
\* of the model: a call is made only while its timer can still fire before the
\* clock stops.
serve ==
    /\ nCalls < MaxCalls
    /\ now + snapshotTimeoutMillis <= MaxTicks * MillisPerSec
    /\ nCalls' = nCalls + 1
    /\ LET p == nCalls + 1 IN
        IF ~hasClients THEN ServeSkip(p, "skipNoClients")
        ELSE IF servingSnapshot THEN ServeSkip(p, "skipBusy")
        ELSE IF Throttled THEN ServeSkip(p, "skipThrottled")
        ELSE ServeAdmit(p)
    /\ UNCHANGED <<options, now, clientCount, lastSnapshot, lastScreenshotIndex,
                   files, unlinks, unlinkFailed, sent, produced,
                   bridge, server>>

\* send('snapshot', snapshot)
SnapshotEvent(s) == [event |-> "snapshot", data |-> s]

\* serve after its await, with the flag also cleared by a capture that ends
\* after its serve call has returned
ServeResumeAlways(p, how, snapshots) ==
    IF call[p].pc = "awaiting"
    THEN /\ sent' = IF how = "pushed"
                    THEN Append(sent, SnapshotEvent(The(snapshots)))
                    ELSE sent
         /\ servingSnapshot' = FALSE
         /\ call' = [call EXCEPT ![p] = [@ EXCEPT !.pc = "returned",
                                                  !.outcome = how,
                                                  !.flagAtReturn = FALSE]]
    ELSE /\ servingSnapshot' = FALSE
         /\ UNCHANGED <<sent, call>>

\* serve after its await (lines 195-200), run when the promise of
\* addTimeoutToPromise settles.  how: "pushed" (resolved with snapshots),
\* "failed" (the capture rejected), "timedout" (the timer rejected).  A promise
\* settles once: when the serve call has already returned nothing happens.
ServeResume(p, how, snapshots) ==
    IF call[p].pc = "awaiting"
    THEN /\ sent' = IF how = "pushed"
                    THEN Append(sent, SnapshotEvent(The(snapshots)))
                    ELSE sent
         /\ servingSnapshot' = ServeFinally
         /\ call' = [call EXCEPT ![p] = [@ EXCEPT !.pc = "returned",
                                                  !.outcome = how,
                                                  !.flagAtReturn = servingSnapshot']]
    ELSE UNCHANGED <<sent, servingSnapshot, call>>

\* ------------------------------------------------------ addTimeoutToPromise
\* addTimeoutToPromise without its timer
TimerNever(p) == FALSE

\* the timer of line 7 is armed and its time has come
TimerDue(p) == timer[p] # Null /\ now >= The(timer[p])

\* `.finally(() => clearTimeout(timeout))`, line 11
ClearTimeout(p) == timer' = [timer EXCEPT ![p] = Null]

\* the timer callback `reject(new Error(errorMessage))`, line 7
TimeoutFire(p) ==
    /\ TimerDue(p)
    /\ timer' = [timer EXCEPT ![p] = Null]
    /\ ServeResume(p, "timedout", Null)
    /\ UNCHANGED <<options, now, clientCount, lastSnapshot, lastScreenshotIndex,
                   nCalls, cap, files, unlinks, unlinkFailed, produced,
                   bridge, server>>

\* ----------------------------------------------------------- _makeSnapshot
\* lines 258-260: the Snapshot is built and becomes lastSnapshot
MakeLast(p, screenshotIndex) ==
    /\ lastSnapshot' = Some(NewSnapshot(p, screenshotIndex))
    /\ produced' = Append(produced, NewSnapshot(p, screenshotIndex))

\* the trimming of lines 253-255 starting one capture later
DeleteRequestLate(i) ==
    IF i > maxScreenshotFiles THEN {i - maxScreenshotFiles} ELSE {}

\* lines 253-255: the unlink that a capture with index i starts
DeleteRequest(i) ==
    IF i > maxScreenshotFiles - 1 THEN {i - maxScreenshotFiles} ELSE {}

\* Promise.all of page.content() and page.screenshot() resolves (line 241).
\* Without screenshots the rest of _makeSnapshot runs at once; with them the
\* index is taken (line 249) and writeFile is awaited (line 252): the Buffer
\* page.screenshot() resolves with is truthy.
GatherDone(p) ==
    /\ cap[p].st = "gathering"
    /\ IF useScreenshots
       THEN /\ cap' = [cap EXCEPT ![p] = [st |-> "writing",
                                          idx |-> Some(lastScreenshotIndex)]]
            /\ lastScreenshotIndex' = lastScreenshotIndex + 1
            /\ UNCHANGED <<lastSnapshot, produced, sent, servingSnapshot, call, timer>>
       ELSE /\ cap' = [cap EXCEPT ![p] = [st |-> "done", idx |-> Null]]
            /\ MakeLast(p, Null)
            /\ ClearTimeout(p)
            /\ ServeResume(p, "pushed", lastSnapshot')
            /\ UNCHANGED lastScreenshotIndex
    /\ UNCHANGED <<options, now, clientCount, nCalls, files, unlinks, unlinkFailed,
                   bridge, server>>

\* page.url(), page.content() or page.screenshot() throws or rejects
GatherFail(p) ==
    /\ cap[p].st = "gathering"
    /\ cap' = [cap EXCEPT ![p].st = "failed"]
    /\ ClearTimeout(p)
    /\ ServeResume(p, "failed", Null)
    /\ UNCHANGED <<options, now, clientCount, lastSnapshot, lastScreenshotIndex,
                   nCalls, files, unlinks, unlinkFailed, produced,
                   bridge, server>>

\* writeFile resolves (line 252): lines 253-260 run
WriteDone(p) ==
    /\ cap[p].st = "writing"
    /\ LET i == The(cap[p].idx) IN
        /\ files' = files \cup {i}
        /\ unlinks' = unlinks \cup DeleteRequest(i)
    /\ cap' = [cap EXCEPT ![p].st = "done"]
    /\ MakeLast(p, cap[p].idx)
    /\ ClearTimeout(p)
    /\ ServeResume(p, "pushed", lastSnapshot')
    /\ UNCHANGED <<options, now, clientCount, lastScreenshotIndex, nCalls,
                   unlinkFailed,
                   bridge, server>>

\* writeFile rejects: _makeSnapshot throws at line 252.  The file may have
\* been created before the error (leftFile) or not.
WriteFail(p, leftFile) ==
    /\ cap[p].st = "writing"
    /\ files' = IF leftFile THEN files \cup {The(cap[p].idx)} ELSE files
    /\ cap' = [cap EXCEPT ![p].st = "failed"]
    /\ ClearTimeout(p)
    /\ ServeResume(p, "failed", Null)
    /\ UNCHANGED <<options, now, clientCount, lastSnapshot, lastScreenshotIndex,
                   nCalls, unlinks, unlinkFailed, produced,
                   bridge, server>>

\* --------------------------------------------------------- _deleteScreenshot
\* the unlink started at line 279 ends: the file is gone (an absent file gives
\* an error that is logged), or it fails and the file stays (logged)
UnlinkDone(i) ==
    /\ i \in unlinks
    /\ unlinks' = unlinks \ {i}
    /\ files' = files \ {i}
    /\ UNCHANGED <<options, now, clientCount, lastSnapshot, lastScreenshotIndex,
                   servingSnapshot, nCalls, call, cap, timer, unlinkFailed, sent, produced,
                   bridge, server>>

UnlinkFail(i) ==
    /\ i \in unlinks
    /\ i \in files
    /\ unlinks' = unlinks \ {i}
    /\ unlinkFailed' = TRUE
    /\ UNCHANGED <<options, now, clientCount, lastSnapshot, lastScreenshotIndex,
                   servingSnapshot, nCalls, call, cap, timer, files, sent, produced,
                   bridge, server>>

\* ------------------------------------------------------------ connections
\* _socketConnectionHandler, line 321, with at most `limit` sockets connected;
\* a socket connects to a server that is bound to its port
Connect(limit) ==
    /\ listening
    /\ clientCount < limit
    /\ clientCount' = clientCount + 1
    /\ UNCHANGED <<options, now, lastSnapshot, lastScreenshotIndex, servingSnapshot,
                   nCalls, call, cap, timer, files, unlinks, unlinkFailed, sent,
                   produced,
                   bridge, server>>

\* the 'disconnect' handler of a connected socket, line 324
Disconnect ==
    /\ clientCount > 0
    /\ clientCount' = clientCount - 1
    /\ UNCHANGED <<options, now, lastSnapshot, lastScreenshotIndex, servingSnapshot,
                   nCalls, call, cap, timer, files, unlinks, unlinkFailed, sent,
                   produced,
                   bridge, server>>

\* socketio.emit('snapshot', this.lastSnapshot) of line 342, through send,
\* lines 218-221: the event goes to every connected socket.  Two fields are
\* kept for the record: reply marks the event as the answer to a
\* 'getLastSnapshot' request, receivers is the number of sockets that get it.
ReplyEvent(s) ==
    [event |-> "snapshot", data |-> s, reply |-> TRUE, receivers |-> clientCount]

\* the places in `sent` of the answers to 'getLastSnapshot' requests
Replies == {i \in DOMAIN sent : "reply" \in DOMAIN sent[i]}

\* the 'getLastSnapshot' handler of a connected socket, lines 339-344
getLastSnapshot ==
    /\ clientCount > 0
    /\ Cardinality(Replies) < MaxRequests
    /\ sent' = IF lastSnapshot # Null
               THEN Append(sent, ReplyEvent(The(lastSnapshot)))
               ELSE sent
    /\ UNCHANGED <<options, now, clientCount, lastSnapshot, lastScreenshotIndex,
                   servingSnapshot, nCalls, call, cap, timer, files, unlinks,
                   unlinkFailed, produced,
                   bridge, server>>

\* ------------------------------------------------------------------- time
Tick ==
    /\ now < MaxTicks * MillisPerSec
    /\ now' = now + MillisPerSec
    /\ UNCHANGED <<options, clientCount, lastSnapshot, lastScreenshotIndex,
                   servingSnapshot, nCalls, call, cap, timer, files, unlinks,
                   unlinkFailed, sent, produced,
                   bridge, server>>

\* ----------------------------------------------------------- prompt bridge
\* The values a 'promptAnswer' event can carry and JSON.parse can return: an
\* object with the property `action`, null, or a string with its text.
JObject(a) == [type |-> "object", action |-> a, text |-> ""]
JNull == [type |-> "null", action |-> "", text |-> ""]
JString(t) == [type |-> "string", action |-> "", text |-> t]

\* the texts tried as payloads
OkText == "{\"action\":\"ok\",\"x\":1}"
NopeText == "{\"action\":\"nope\"}"
NullText == "null"
GarbageText == "ok"
InheritedText == "{\"action\":\"toString\"}"
ProtoText == "{\"action\":\"__proto__\"}"

\* the payloads tried
Payloads ==
    {JString(OkText), JString(NopeText), JString(NullText), JString(GarbageText),
     JString(InheritedText), JString(ProtoText), JObject("ok"), JNull}

\* the template literal `${data}` of line 331
TemplateString(data) ==
    CASE data.type = "string" -> data.text
      [] data.type = "object" -> "[object Object]"
      [] data.type = "null" -> "null"

\* JSON.parse(text): Some(value), or Null when it throws a SyntaxError
JSONParse(text) ==
    CASE text = OkText -> Some(JObject("ok"))
      [] text = NopeText -> Some(JObject("nope"))
      [] text = NullText -> Some(JNull)
      [] text = InheritedText -> Some(JObject("toString"))
      [] text = ProtoText -> Some(JObject("__proto__"))
      [] OTHER -> Null

\* the 'promptAnswer' handler without its JSON.parse
ParseAnswerRaw(data) == data

\* the 'promptAnswer' handler, lines 330-334: data after the try/catch
ParseAnswer(data) ==
    IF JSONParse(TemplateString(data)) # Null
    THEN The(JSONParse(TemplateString(data)))
    ELSE data

\* option promptHandlers: the actions with a handler
promptHandlers == {"ok"}

\* response.action, line 120: Some(action), or Null for undefined
ActionOf(response) ==
    IF response.type = "object" THEN Some(response.action) ELSE Null

\* promptHandlers is an object literal, line 81: a property read on it also
\* finds what it inherits from Object.prototype.  Of those, the function
\* tried, and the truthy value tried that is no function
ObjectPrototypeFunctions == {"toString"}
ObjectPrototypeValues == {"__proto__"}
ObjectPrototype == ObjectPrototypeFunctions \cup ObjectPrototypeValues

\* handleResponse throws a TypeError: line 120 reads a property of null, or
\* line 124 calls a value that is no function
HandleThrows(response) ==
    \/ response.type = "null"
    \/ /\ response.type = "object"
       /\ response.action \in ObjectPrototypeValues \ promptHandlers

\* handleResponse, line 120: is promptHandlers[response.action] truthy
HasHandler(response) ==
    /\ ActionOf(response) # Null
    /\ The(ActionOf(response)) \in promptHandlers \cup ObjectPrototype

\* send('prompt', options)
PromptEvent(r) == [event |-> "prompt", data |-> [id |-> r]]

\* prompt(options), lines 109-114: the resolve function is stored, the prompt
\* is sent and the call waits
prompt ==
    /\ nPrompts < MaxPrompts
    /\ nPrompts' = nPrompts + 1
    /\ resolveMessagePromise' = Some(nPrompts + 1)
    /\ sent' = Append(sent, PromptEvent(nPrompts + 1))
    /\ prompts' = [prompts EXCEPT ![nPrompts + 1].pc = "suspended"]
    /\ UNCHANGED <<options, now, clientCount, lastSnapshot, lastScreenshotIndex,
                   servingSnapshot, nCalls, call, cap, timer, files, unlinks,
                   unlinkFailed, produced, nAnswers, handled, socketThrew,
                   server>>

\* the 'promptAnswer' handler of a connected socket, lines 327-337, with the
\* payload data.  Calling undefined throws; resolving a promise that is
\* already resolved does nothing.
PromptAnswer(data) ==
    /\ clientCount > 0
    /\ nAnswers < MaxAnswers
    /\ nAnswers' = nAnswers + 1
    /\ IF resolveMessagePromise = Null
       THEN /\ socketThrew' = TRUE
            /\ UNCHANGED prompts
       ELSE /\ LET r == The(resolveMessagePromise) IN
                prompts' = IF prompts[r].pc = "suspended"
                           THEN [prompts EXCEPT ![r].pc = "resolved",
                                                ![r].response = Some(ParseAnswer(data)),
                                                ![r].answer = Some(data)]
                           ELSE prompts
            /\ UNCHANGED socketThrew
    /\ UNCHANGED <<options, now, clientCount, lastSnapshot, lastScreenshotIndex,
                   servingSnapshot, nCalls, call, cap, timer, files, unlinks,
                   unlinkFailed, sent, produced, nPrompts, resolveMessagePromise,
                   handled, server>>

\* the value an `async` function without a `return` gives its caller
Undefined == Null

\* prompt after its await, lines 115-117: handleResponse(response), lines
\* 119-125, then the end of the function.  The handler itself is the
\* caller's code: its call is recorded, it is taken to return.
PromptResume(r) ==
    /\ prompts[r].pc = "resolved"
    /\ LET response == The(prompts[r].response) IN
        IF HandleThrows(response)
        THEN /\ prompts' = [prompts EXCEPT ![r].pc = "raised"]
             /\ UNCHANGED handled
        ELSE /\ prompts' = [prompts EXCEPT ![r].pc = "returned",
                                           ![r].result = Undefined]
             /\ handled' = IF HasHandler(response)
                           THEN Append(handled, [prompt |-> r,
                                                 action |-> The(ActionOf(response)),
                                                 response |-> response])
                           ELSE handled
    /\ UNCHANGED <<options, now, clientCount, lastSnapshot, lastScreenshotIndex,
                   servingSnapshot, nCalls, call, cap, timer, files, unlinks,
                   unlinkFailed, sent, produced, nPrompts, resolveMessagePromise,
                   nAnswers, socketThrew, server>>

\* -------------------------------------------------------------- lifecycle
\* The host makes its calls of start and stop one at a time, awaiting each.

\* isRunning(), lines 206-208
isRunning == _isRunning

\* start(), line 133, up to its first await
start ==
    /\ lifecycle.pc = "idle"
    /\ nLifecycle < MaxLifecycle
    /\ nLifecycle' = nLifecycle + 1
    /\ _isRunning' = TRUE
    /\ lifecycle' = [pc |-> "starting", ended |-> "none"]
    /\ UNCHANGED <<options, now, clientCount, lastSnapshot, lastScreenshotIndex,
                   servingSnapshot, nCalls, call, cap, timer, files, unlinks,
                   unlinkFailed, sent, produced, bridge, listening>>

\* start, lines 135-137: the directory exists and listen has bound the port,
\* which it can only do on a server that is not bound yet
StartDone ==
    /\ lifecycle.pc = "starting"
    /\ ~listening
    /\ listening' = TRUE
    /\ lifecycle' = [pc |-> "idle", ended |-> "started"]
    /\ UNCHANGED <<options, now, clientCount, lastSnapshot, lastScreenshotIndex,
                   servingSnapshot, nCalls, call, cap, timer, files, unlinks,
                   unlinkFailed, sent, produced, bridge, _isRunning, nLifecycle>>

\* the catch block of start that leaves the flag as it is
StartCatchKeep == _isRunning

\* the catch block of start, line 140: the value given to _isRunning
StartCatch == FALSE

\* start, lines 138-141: ensureDir or listen failed (the port is taken, or
\* the server is bound already); the error is logged, the call returns
StartFail ==
    /\ lifecycle.pc = "starting"
    /\ _isRunning' = StartCatch
    /\ lifecycle' = [pc |-> "idle", ended |-> "startFailed"]
    /\ UNCHANGED <<options, now, clientCount, lastSnapshot, lastScreenshotIndex,
                   servingSnapshot, nCalls, call, cap, timer, files, unlinks,
                   unlinkFailed, sent, produced, bridge, listening, nLifecycle>>

\* stop(), lines 149-152: httpServer.close(callback) releases the port at
\* once and keeps the connections that exist
stop ==
    /\ lifecycle.pc = "idle"
    /\ nLifecycle < MaxLifecycle
    /\ nLifecycle' = nLifecycle + 1
    /\ listening' = FALSE
    /\ lifecycle' = [pc |-> "stopping", ended |-> "none"]
    /\ UNCHANGED <<options, now, clientCount, lastSnapshot, lastScreenshotIndex,
                   servingSnapshot, nCalls, call, cap, timer, files, unlinks,
                   unlinkFailed, sent, produced, bridge, _isRunning>>

\* the callback of httpServer.close, lines 152-157, called once the
\* connections have ended (or at once, with an error, when the server was
\* not bound): the flag is cleared and the call of stop returns
StopDone ==
    /\ lifecycle.pc = "stopping"
    /\ clientCount = 0
    /\ _isRunning' = FALSE
    /\ lifecycle' = [pc |-> "idle", ended |-> "stopped"]
    /\ UNCHANGED <<options, now, clientCount, lastSnapshot, lastScreenshotIndex,
                   servingSnapshot, nCalls, call, cap, timer, files, unlinks,
                   unlinkFailed, sent, produced, bridge, listening, nLifecycle>>

\* ------------------------------------------------------------------- Next
\* the capture guard, its capture procedures and their files, while no
\* socket connects or disconnects
CaptureNext ==
    \/ serve
    \/ \E p \in Calls : TimeoutFire(p)
    \/ \E p \in Calls : GatherDone(p)
    \/ \E p \in Calls : GatherFail(p)
    \/ \E p \in Calls : WriteDone(p)
    \/ \E p \in Calls, leftFile \in BOOLEAN : WriteFail(p, leftFile)
    \/ \E i \in 0..MaxCalls : UnlinkDone(i)
    \/ \E i \in 0..MaxCalls : UnlinkFail(i)
    \/ Tick

\* the capture guard with sockets connecting and disconnecting
GuardNext ==
    \/ CaptureNext
    \/ Connect(MaxClients)
    \/ Disconnect

\* the prompt bridge
BridgeNext ==
    \/ prompt
    \/ \E data \in Payloads : PromptAnswer(data)
    \/ \E r \in Prompts : PromptResume(r)
    \/ Connect(MaxClients)
    \/ Disconnect

\* the capture guard with observers that ask for the last snapshot
ResendNext ==
    \/ GuardNext
    \/ Connect(MaxObservers)
    \/ getLastSnapshot

\* the lifecycle calls and the connections of the sockets
LifecycleNext ==
    \/ start
    \/ StartDone
    \/ StartFail
    \/ stop
    \/ StopDone
    \/ Connect(MaxClients)
    \/ Disconnect

Next == GuardNext \/ BridgeNext \/ ResendNext \/ LifecycleNext

Spec == Init /\ [][Next]_vars

\* The capture guard and the prompt bridge share the observer count, which
\* only the connection handlers write, and the list of emitted events, which
\* neither reads.  Each is checked on its own, the other standing still, on
\* a server that was started; the bridge reads neither screenshot option, so
\* one value of each is tried.
GuardSpec == Started /\ [][GuardNext]_vars

BridgeInit == Started /\ ~useScreenshots /\ maxScreenshotFiles = 1

BridgeSpec == BridgeInit /\ [][BridgeNext]_vars

\* a resolved promise's continuation is run by the microtask queue
BridgeFairSpec == BridgeSpec /\ \A r \in Prompts : WF_vars(PromptResume(r))

\* the executions in which no socket ever connects
NoObserverSpec == Started /\ [][CaptureNext]_vars

\* the lifecycle calls, from the constructor on
LifecycleSpec == Init /\ [][LifecycleNext]_vars

ResendSpec == Started /\ [][ResendNext]_vars

\* the scheduling the code relies on: time passes, and the event loop runs
\* the callback of a timer that is due
FairSpec ==
    /\ GuardSpec
    /\ WF_vars(Tick)
    /\ \A p \in Calls : WF_vars(TimeoutFire(p))

\* ================================================================= claims
\* the serve calls that were admitted (passed the three checks)
Admitted(p) ==
    \/ call[p].pc = "awaiting"
    \/ call[p].outcome \in {"pushed", "failed", "timedout"}

\* the capture procedure of serve call p is executing
Running(p) == cap[p].st \in {"gathering", "writing"}

\* serve call p was made in this step
Serving(p) == nCalls' = nCalls + 1 /\ p = nCalls'

\* nothing of the capture guard changes in this step
NoCaptureEffect ==
    /\ cap' = cap
    /\ timer' = timer
    /\ lastSnapshot' = lastSnapshot
    /\ lastScreenshotIndex' = lastScreenshotIndex
    /\ servingSnapshot' = servingSnapshot
    /\ files' = files
    /\ unlinks' = unlinks
    /\ produced' = produced
    /\ sent' = sent

\* C1 (as claimed): at most one capture procedure is executing at any instant,
\* the captures abandoned by a timed-out serve call included.
C1_SingleFlight == Cardinality({p \in Calls : Running(p)}) <= 1

\* C2 (as claimed): a capture whose serve call timed out never becomes the
\* most recent Snapshot, no snapshot event is sent for it, and the in-flight
\* flag is false when that serve call returns.
C2_TimeoutNoUpdate ==
    \A p \in Calls :
        call[p].outcome = "timedout" =>
            /\ \A i \in DOMAIN produced : produced[i].id # p
            /\ \A i \in DOMAIN sent :
                   ~(sent[i].event = "snapshot" /\ sent[i].data.id = p)
            /\ call[p].flagAtReturn = FALSE

\* C3 (as claimed): two Snapshots that successively become the most recent one
\* are created at least the minimum capture interval apart.
C3_ThrottleSeparation ==
    \A i \in 1..(Len(produced) - 1) :
        produced[i + 1].createdAt - produced[i].createdAt
            >= maxSnapshotFrequencyMillis

\* C4: a serve call made while the most recent Snapshot is younger than the
\* minimum capture interval starts no capture, produces no Snapshot and sends
\* nothing.
C4_ThrottleAdmission ==
    [][\A p \in Calls :
          (/\ Serving(p)
           /\ produced # <<>>
           /\ now - produced[Len(produced)].createdAt < maxSnapshotFrequencyMillis)
          => (NoCaptureEffect /\ ~Admitted(p)')]_vars

\* a serve call was skipped by the throttle check
C4_Witness == \E p \in Calls : call[p].outcome = "skipThrottled"

C7_BoundedBlocking ==
    \A p \in Calls : (call[p].pc = "awaiting") ~> (call[p].pc = "returned")

\* a serve call has returned by timeout while its capture is still executing
C7_Witness ==
    \E p \in Calls : call[p].outcome = "timedout" /\ Running(p)

\* C8 (as claimed): while no capture has failed, the Snapshots produced carry
\* the screenshot indexes 0, 1, 2, ... in production order when screenshots are
\* enabled, and no index when they are disabled.
C8_IndexMonotonic ==
    (\A p \in Calls : cap[p].st # "failed") =>
        \A i \in DOMAIN produced :
            produced[i].screenshotIndex =
                (IF useScreenshots THEN Some(i - 1) ELSE Null)

\* C9 (as claimed): once every requested deletion has completed, at most
\* maxScreenshotFiles screenshot files exist.
C9_RetentionBound ==
    (unlinks = {} /\ ~unlinkFailed) => Cardinality(files) <= maxScreenshotFiles

\* the calls of prompt handlers made for prompt call r
HandledFor(r) == {i \in DOMAIN handled : handled[i].prompt = r}

\* prompt call r was resolved by an answer with the registered action "ok",
\* sent as JSON text or as an object
AnsweredOk(r) == prompts[r].answer \in {Some(JString(OkText)), Some(JObject("ok"))}

\* what C10 says of a prompt call answered with the action "ok", but for the
\* value the call gives its caller
C10_AnsweredOnce(r) ==
    /\ prompts[r].response = Some(JObject("ok"))
    /\ prompts[r].pc \in {"resolved", "returned"}
    /\ prompts[r].pc = "resolved" => HandledFor(r) = {}
    /\ prompts[r].pc = "returned" =>
           /\ Cardinality(HandledFor(r)) = 1
           /\ \A i \in HandledFor(r) :
                  handled[i].action = "ok" /\ handled[i].response = JObject("ok")

AnsweredUnregistered(r) ==
    /\ prompts[r].response # Null
    /\ The(prompts[r].response).type = "object"
    /\ The(prompts[r].response).action \notin promptHandlers

\* C11: an answer whose action has no registered handler resolves the
\* pending prompt call, which raises no error and calls no handler.
C11_UnhandledAction ==
    \A r \in Prompts : AnsweredUnregistered(r) =>
        /\ prompts[r].pc \in {"resolved", "returned"}
        /\ HandledFor(r) = {}

\* the broadcasts of serve among the events sent
Pushes == {i \in DOMAIN sent : sent[i].event = "snapshot"} \ Replies

\* C12: the snapshot sent in answer to a 'getLastSnapshot' request is the one
\* serve broadcast last; the request does nothing when there is no snapshot.
C12_LastSnapshotResend ==
    /\ \A i \in Replies :
          \E j \in Pushes :
             /\ j < i
             /\ sent[j].data = sent[i].data
             /\ \A k \in Pushes : k < i => k <= j
    /\ produced = <<>> => Replies = {}

\* C13: snapshots are not created until a client has connected: while no
\* socket has ever connected (every state of NoObserverSpec), no capture has
\* been started and no Snapshot has been created.
C13_NoCaptureBeforeClient ==
    clientCount = 0 =>
        /\ \A p \in Calls : ~Admitted(p) /\ cap[p].st = "none"
        /\ produced = <<>>
        /\ lastSnapshot = Null

\* what C14 says of the calls of start and stop that have ended: start never
\* raises, and isRunning() is false once start has ended with a failure, true
\* once it has ended with the port bound, false once stop has ended
LifecycleEnds ==
    /\ lifecycle.ended \in {"none", "started", "startFailed", "stopped"}
    /\ lifecycle.ended = "startFailed" => ~isRunning
    /\ lifecycle.ended = "started" => isRunning
    /\ lifecycle.ended = "stopped" => ~isRunning

\* isRunning() does not depend on the observer count: no connection and no
\* disconnection changes it
FlagApartFromClients == clientCount' # clientCount => isRunning' = isRunning

C15_UnicastReply == \A i \in Replies : sent[i].receivers = 1

\* one of the three conditions under which serve returns early holds: no
\* interested observer, a capture in flight, a Snapshot younger than the
\* minimum interval
SkipCondition ==
    \/ produced # <<>> /\ clientCount = 0
    \/ servingSnapshot
    \/ /\ produced # <<>>
       /\ now - The(lastSnapshot).createdAt < maxSnapshotFrequencySecs * MillisPerSec

\* C16: a serve call made while one of its three skip conditions holds
\* returns at once and changes neither the most recent Snapshot, nor the next
\* screenshot index, nor the in-flight flag, nor the files, nor the events
\* sent.
C16_SkipNoOp ==
    [][\A p \in Calls : (Serving(p) /\ SkipCondition) =>
          /\ call'[p].pc = "returned"
          /\ NoCaptureEffect
          /\ sent' = sent]_vars

\* a serve call was skipped while another call's capture was in flight, and
\* left the flag set
C16_Witness ==
    \E p, q \in Calls :
        /\ call[p].outcome = "skipBusy"
        /\ call[q].pc = "awaiting"
        /\ servingSnapshot

\* the indexes of the screenshot files that captures have written with success
Persisted ==
    {The(cap[p].idx) : p \in {q \in Calls : cap[q].st = "done" /\ cap[q].idx # Null}}

\* the trimming rule: the capture that has written file i starts the unlink
\* of file i - K, and of no other, when i >= K, and starts none when i < K
TrimmingRule ==
    \A p \in Calls : (cap[p].st = "writing" /\ cap'[p].st = "done") =>
        LET i == The(cap[p].idx) IN
            unlinks' = unlinks \cup (IF i >= maxScreenshotFiles
                                     THEN {i - maxScreenshotFiles} ELSE {})

\* C17 as claimed: the trimming rule; hence file 0 is still there after K
\* successful captures and has been deleted after K + 1.
C17_TrimmingAsClaimed ==
    /\ [][TrimmingRule]_vars
    /\ []((0 \in Persisted /\ Cardinality(Persisted) <= maxScreenshotFiles)
             => 0 \in files)
    /\ [](Cardinality(Persisted) >= maxScreenshotFiles + 1 => 0 \notin files)

\* C17 (amended): the trimming rule; hence file 0, once written, is there
\* as long as the capture with index K has not written its file, and that
\* capture starts the unlink of file 0, which need not have ended, nor
\* succeed.
C17_Trimming ==
    /\ [][TrimmingRule]_vars
    /\ []((0 \in Persisted /\ maxScreenshotFiles \notin Persisted) => 0 \in files)

\* K + 1 captures have written their files, the unlink of file 0 is under
\* way and the file is still there
C17_Witness ==
    /\ Persisted = 0..maxScreenshotFiles
    /\ 0 \in unlinks
    /\ 0 \in files

\* no prompt call is waiting for its answer: none was made yet, or each has
\* been resolved
NoAskOutstanding == \A r \in Prompts : prompts[r].pc # "suspended"

\* C18: a 'promptAnswer' event that arrives while no prompt call is waiting
\* is dropped: no handler is called, no prompt call is resolved, no error is
\* raised.
C18_AnswerWithoutPrompt ==
    [][(nAnswers' = nAnswers + 1 /\ NoAskOutstanding) =>
          /\ handled' = handled
          /\ prompts' = prompts
          /\ ~socketThrew']_vars

\* C19: with screenshots enabled, each Snapshot that replaces lastSnapshot
\* has a greater screenshot index than the one it replaces.
C19_LastSnapshotForward ==
    useScreenshots =>
        \A i \in 1..(Len(produced) - 1) :
            The(produced[i + 1].screenshotIndex) > The(produced[i].screenshotIndex)

\* the serve calls between admission and return
Inflight == {p \in Calls : call[p].pc = "awaiting"}

\* C20: at most one serve call is between admission and return, the
\* in-flight flag is set exactly when there is one, and the flag is cleared
\* only by the return of that call.
C20_FlagOwnership ==
    /\ [](Cardinality(Inflight) <= 1 /\ (servingSnapshot <=> Inflight # {}))
    /\ [][(servingSnapshot /\ ~servingSnapshot') =>
            \E p \in Inflight : call'[p].pc = "returned"]_vars

\* the first serve call has timed out with its capture still running, and a
\* second call is admitted and holds the flag
C20_Witness ==
    \E p, q \in Calls :
        /\ call[p].outcome = "timedout"
        /\ Running(p)
        /\ Inflight = {q}
        /\ servingSnapshot

====
